---- MODULE Spec2Model ----
(***************************************************************************)
(* Model of lesson7_files/data_loader.py (EcommerceDataLoader) and         *)
(* lesson7_files/business_metrics.py.                                      *)
(*                                                                         *)
(* A DataFrame is a record [cols, dt, rows]: cols is the sequence of       *)
(* column names, dt the set of columns of dtype datetime64, and rows the   *)
(* sequence of rows, each row a function from the column names to cells.   *)
(* A cell is a record [k, s, v]:                                           *)
(*   k = "null"  NaN / NaT / None                                          *)
(*   k = "num"   the number v                                              *)
(*   k = "str"   a string: s = "ts" is the text of the instant v (what a   *)
(*               CSV file holds for a date), any other s is the text       *)
(*               s ++ v (an id, a status, a category, unparsable text)     *)
(*   k = "ts"    the datetime64 instant v                                  *)
(* Instants count ticks since the first instant of EpochYear, in a uniform *)
(* calendar of MonthsPerYear months of DaysPerMonth days of TicksPerDay    *)
(* ticks.  Floating point results are modelled by exact rationals          *)
(* [t |-> "rat", num, den] and the IEEE specials "nan", "inf", "-inf".     *)
(***************************************************************************)
EXTENDS Integers, Sequences, FiniteSets, TLC

VARIABLES
    files,           \* the CSV files of data_path: dataset name -> table held by the file
    raw_data,        \* EcommerceDataLoader.raw_data
    processed_data,  \* EcommerceDataLoader.processed_data
    env,             \* the caller's tables handed to the metric functions
    call,            \* the last call: its name and its arguments
    argIn,           \* the tables passed to the last call, as they were at the call
    argOut,          \* the same tables when the call returned
    ret              \* what the last call returned or raised

vars == <<files, raw_data, processed_data, env, call, argIn, argOut, ret>>

----------------------------------------------------------------------------
(* Bounds of the model *)

MaxRows == 2        \* rows of a caller-built sales table
MaxOrders == 3      \* orders of an orders table that varies in status
MaxDays == 9        \* largest number of days passed to categorize_delivery_speed
TicksPerDay == 2    \* resolution of an instant
DaysPerMonth == 4
MonthsPerYear == 2
EpochYear == 2022   \* year of instant 0

----------------------------------------------------------------------------
(* Cells *)

Null == [k |-> "null", s |-> "", v |-> 0]
Num(n) == [k |-> "num", s |-> "", v |-> n]
Str(s, n) == [k |-> "str", s |-> s, v |-> n]
Ts(t) == [k |-> "ts", s |-> "", v |-> t]
DateStr(t) == Str("ts", t)

IsNull(c) == c.k = "null"

TicksPerMonth == TicksPerDay * DaysPerMonth
TicksPerYear == TicksPerMonth * MonthsPerYear

\* The instant of tick `tick` of day d of month m of year y
Date(y, m, d, tick) ==
    (y - EpochYear) * TicksPerYear + (m - 1) * TicksPerMonth + (d - 1) * TicksPerDay + tick

FloorDiv(a, b) == a \div b   \* TLA+ \div rounds toward minus infinity (b > 0)
TruncDiv(a, b) == IF a >= 0 THEN a \div b ELSE -((-a) \div b)

YearOf(t) == EpochYear + FloorDiv(t, TicksPerYear)
MonthOf(t) == FloorDiv(t % TicksPerYear, TicksPerMonth) + 1
DayIndex(t) == FloorDiv(t, TicksPerDay)

----------------------------------------------------------------------------
(* Floating point results *)

Rat(n, d) == [t |-> "rat", num |-> IF d < 0 THEN -n ELSE n, den |-> IF d < 0 THEN -d ELSE d]
NaN == [t |-> "nan", num |-> 0, den |-> 0]
Inf == [t |-> "inf", num |-> 1, den |-> 0]
NegInf == [t |-> "-inf", num |-> -1, den |-> 0]
Zero == Rat(0, 1)
IsRat(x) == x.t = "rat"

RatEq(x, y) == IsRat(x) /\ IsRat(y) /\ x.num * y.den = y.num * x.den
\* x > 0 as Python evaluates it: False for nan
GtZero(x) == \/ x.t = "inf"
             \/ IsRat(x) /\ x.num > 0
IsZero(x) == IsRat(x) /\ x.num = 0

RatSub(x, y) ==
    IF IsRat(x) /\ IsRat(y) THEN Rat(x.num * y.den - y.num * x.den, x.den * y.den)
    ELSE NaN

RatMulInt(x, n) == IF IsRat(x) THEN Rat(x.num * n, x.den) ELSE x

\* numpy float64 division: x / 0 is nan, inf or -inf, never an exception
NpDiv(x, y) ==
    IF ~IsRat(x) \/ ~IsRat(y) THEN NaN
    ELSE IF y.num = 0
         THEN (IF x.num = 0 THEN NaN ELSE IF x.num > 0 THEN Inf ELSE NegInf)
         ELSE Rat(x.num * y.den, x.den * y.num)

\* Python int division: n / 0 raises ZeroDivisionError
PyDiv(n, d) ==
    IF d = 0 THEN [t |-> "ZeroDivisionError", num |-> 0, den |-> 0]
    ELSE Rat(n, d)

\* round(x, digits), to the nearest with ties to even
RoundTo(x, scale) ==
    IF ~IsRat(x) THEN x
    ELSE LET n == x.num * scale
             q == FloorDiv(n, x.den)
             r == n - q * x.den
         IN IF 2 * r < x.den THEN Rat(q, scale)
            ELSE IF 2 * r > x.den THEN Rat(q + 1, scale)
            ELSE IF q % 2 = 0 THEN Rat(q, scale) ELSE Rat(q + 1, scale)

----------------------------------------------------------------------------
(* DataFrames *)

Range(s) == {s[i] : i \in DOMAIN s}

Frame(cols, dt, rows) == [cols |-> cols, dt |-> dt, rows |-> rows]
HasCol(df, c) == c \in Range(df.cols)
HasCols(df, cs) == Range(cs) \subseteq Range(df.cols)

\* df[mask]: the rows whose entry of the boolean mask is True, in order
Where(df, mask) ==
    LET kept == SelectSeq([n \in DOMAIN df.rows |-> n], LAMBDA n : mask[n])
    IN Frame(df.cols, df.dt, [j \in DOMAIN kept |-> df.rows[kept[j]]])

\* df[[c1, ..., cn]]
Project(df, cs) ==
    Frame(cs, df.dt \cap Range(cs),
          [i \in DOMAIN df.rows |-> [c \in Range(cs) |-> df.rows[i][c]]])

\* df[c] = series: a new column goes last, an old one keeps its place; isDt
\* tells whether the assigned series is datetime64
SetCol(df, c, series, isDt) ==
    Frame(IF HasCol(df, c) THEN df.cols ELSE Append(df.cols, c),
          IF isDt THEN df.dt \cup {c} ELSE df.dt \ {c},
          [i \in DOMAIN df.rows |->
              [x \in Range(df.cols) \cup {c} |->
                  IF x = c THEN series[i] ELSE df.rows[i][x]]])

\* df[c] == v and df[c].isin(vs) as boolean masks
EqMask(df, c, v) == [n \in DOMAIN df.rows |-> df.rows[n][c] = v]
IsinMask(df, c, vs) == [n \in DOMAIN df.rows |-> df.rows[n][c] \in vs]

RECURSIVE Flatten(_)
Flatten(ss) == IF ss = <<>> THEN <<>> ELSE Head(ss) \o Flatten(Tail(ss))

\* the columns a merge on `key` takes from the right table
RightCols(right, key) == SelectSeq(right.cols, LAMBDA c : c # key)

JoinRow(l, r, left, right) ==
    [c \in Range(left.cols) \cup Range(right.cols) |->
        IF c \in Range(left.cols) THEN l[c] ELSE r[c]]

NullRow(l, left, right) ==
    [c \in Range(left.cols) \cup Range(right.cols) |->
        IF c \in Range(left.cols) THEN l[c] ELSE Null]

Matches(l, right, key) == SelectSeq(right.rows, LAMBDA r : r[key] = l[key])

\* pd.merge(left, right, on=key, how=how): left rows in order, each with its
\* matching right rows in order; how = "left" keeps an unmatched left row with nulls
Merge(left, right, key, how) ==
    Frame(left.cols \o RightCols(right, key),
          left.dt \cup (right.dt \ {key}),
          Flatten([i \in DOMAIN left.rows |->
              LET l == left.rows[i]
                  ms == Matches(l, right, key)
              IN IF ms = <<>>
                 THEN (IF how = "left" THEN <<NullRow(l, left, right)>> ELSE <<>>)
                 ELSE [j \in DOMAIN ms |-> JoinRow(l, ms[j], left, right)]]))

Column(df, c) == [i \in DOMAIN df.rows |-> df.rows[i][c]]

RECURSIVE SumCells(_)
\* Series.sum(): nulls are skipped
SumCells(cells) ==
    IF cells = <<>> THEN 0
    ELSE (IF Head(cells).k = "num" THEN Head(cells).v ELSE 0) + SumCells(Tail(cells))

\* Series.count(): the number of non-null values
CountCells(cells) == Len(SelectSeq(cells, LAMBDA c : ~IsNull(c)))

\* Series.nunique() / the keys of a groupby: the distinct non-null values
Distinct(cells) == {x \in Range(cells) : ~IsNull(x)}

\* a raised exception
Raise(e) == [err |-> e]
KeyErr(key) == [err |-> "KeyError", key |-> key]
IsErr(r) == "err" \in DOMAIN r

----------------------------------------------------------------------------
(* data_loader.py *)

Names == {"orders", "order_items", "products", "customers", "reviews"}

\* pd.to_datetime(value, errors='coerce')
to_datetime(c) ==
    IF c.k = "ts" THEN c
    ELSE IF c.k = "str" /\ c.s = "ts" THEN Ts(c.v)
    ELSE Null

\* A loader method returns [df, ret]: df is the table passed in as it is when
\* the method returns, ret the returned table or the raised exception.

\* pd.to_datetime(df[col], errors='coerce')
ToDatetimeSeries(df, col) == [n \in DOMAIN df.rows |-> to_datetime(df.rows[n][col])]

RECURSIVE ConvertCols(_, _)
ConvertCols(df, cols) ==
    IF cols = <<>> THEN df
    ELSE LET col == Head(cols)
         IN ConvertCols(IF HasCol(df, col)
                        THEN SetCol(df, col, ToDatetimeSeries(df, col), TRUE)
                        ELSE df,
                        Tail(cols))

\* the conversion without df.copy(): the columns are assigned on df itself
clean_datetime_columns_inplace(df, datetime_cols) ==
    [df |-> ConvertCols(df, datetime_cols), ret |-> ConvertCols(df, datetime_cols)]

clean_datetime_columns(df, datetime_cols) ==
    LET df_copy == df
    IN [df |-> df, ret |-> ConvertCols(df_copy, datetime_cols)]

\* instant 0 falls on a Saturday (dayofweek 5)
DayOfWeek(t) == (DayIndex(t) + 5) % 7
Quarter(t) == FloorDiv(MonthOf(t) - 1, 3) + 1

\* Series.dt.<field> of a datetime64 column: NaN for NaT
DtField(c, field) ==
    IF c.k = "ts"
    THEN Num(CASE field = "year" -> YearOf(c.v)
               [] field = "month" -> MonthOf(c.v)
               [] field = "dayofweek" -> DayOfWeek(c.v)
               [] field = "quarter" -> Quarter(c.v))
    ELSE Null

\* df[col].dt.<field>
DtSeries(df, col, field) == [n \in DOMAIN df.rows |-> DtField(df.rows[n][col], field)]

TimeFeatures(df, timestamp_col) ==
    LET a == SetCol(df, "year", DtSeries(df, timestamp_col, "year"), FALSE)
        b == SetCol(a, "month", DtSeries(a, timestamp_col, "month"), FALSE)
        c == SetCol(b, "day_of_week", DtSeries(b, timestamp_col, "dayofweek"), FALSE)
    IN SetCol(c, "quarter", DtSeries(c, timestamp_col, "quarter"), FALSE)

extract_time_features(df, timestamp_col) ==
    LET df_copy == df
    IN [df |-> df,
        ret |-> IF ~HasCol(df_copy, timestamp_col) THEN df_copy
                ELSE IF timestamp_col \notin df_copy.dt
                     THEN Raise("AttributeError")   \* .dt of a column that is not datetime64
                     ELSE TimeFeatures(df_copy, timestamp_col)]

ItemCols == <<"order_id", "order_item_id", "product_id", "price", "freight_value">>
OrderCols == <<"order_id", "customer_id", "order_status", "order_purchase_timestamp",
               "order_delivered_customer_date", "order_estimated_delivery_date">>
DatetimeCols == <<"order_purchase_timestamp", "order_delivered_customer_date",
                  "order_estimated_delivery_date">>
\* a Python list passed as an argument
List(items) == [k |-> "list", s |-> "", v |-> 0, items |-> items]
DefaultStatusFilter == List(<<Str("delivered", 0)>>)

\* the difference in days cut toward zero, as int(seconds / 86400) would
DeliveryDaysTrunc(delivered, purchase) ==
    IF delivered.k = "ts" /\ purchase.k = "ts"
    THEN Num(TruncDiv(delivered.v - purchase.v, TicksPerDay))
    ELSE Null

\* (delivered - purchase).dt.days: Timedelta.days is the floor of the difference
\* in days; NaN when either instant is NaT
DeliveryDays(delivered, purchase) ==
    IF delivered.k = "ts" /\ purchase.k = "ts"
    THEN Num(FloorDiv(delivered.v - purchase.v, TicksPerDay))
    ELSE Null

\* self.raw_data.get(name, pd.DataFrame()): an empty table for a missing one
LookupOrEmpty(raw, name) ==
    IF name \in DOMAIN raw THEN raw[name] ELSE Frame(<<>>, {}, <<>>)

\* self.raw_data[name]: KeyError(name) when the table was not loaded
Lookup(raw, name) ==
    IF name \in DOMAIN raw THEN raw[name] ELSE KeyErr(name)

\* table[[columns]]: KeyError when a column is missing
\* (df['order_delivered_customer_date'] - df['order_purchase_timestamp']).dt.days
DeliveryDaysSeries(df) ==
    [n \in DOMAIN df.rows |-> DeliveryDays(df.rows[n]["order_delivered_customer_date"],
                                           df.rows[n]["order_purchase_timestamp"])]

Select(df, cs) ==
    IF IsErr(df) THEN df
    ELSE IF HasCols(df, cs) THEN Project(df, cs)
    ELSE KeyErr("columns")

\* prepare_sales_data on the loader's raw_data `raw`; order_status_filter is a
\* list of statuses or Null (None)
prepare_sales_data(raw, order_status_filter) ==
    LET status_filter == IF IsNull(order_status_filter) THEN DefaultStatusFilter
                         ELSE order_status_filter
        items == Select(Lookup(raw, "order_items"), ItemCols)
        orders == Select(Lookup(raw, "orders"), OrderCols)
    IN IF IsErr(items) THEN items
       ELSE IF IsErr(orders) THEN orders
       ELSE
       LET merged == Merge(items, orders, "order_id", "inner")
           filtered == Where(merged, IsinMask(merged, "order_status", Range(status_filter.items)))
           cleaned == clean_datetime_columns(filtered, DatetimeCols).ret
           featured == extract_time_features(cleaned, "order_purchase_timestamp").ret
       IN IF HasCol(featured, "order_delivered_customer_date")
          THEN SetCol(featured, "delivery_days",
                      DeliveryDaysSeries(featured), FALSE)
          ELSE featured

\* Python truthiness of an Optional argument: None, 0 and '' are false
Truthy(x) == ~IsNull(x) /\ ~(x.k = "num" /\ x.v = 0)

\* column >= 'YYYY-MM-DD' and column <= 'YYYY-MM-DD' on a datetime64 column: the
\* string is parsed to the instant it denotes; a comparison with NaT is False
GeDate(c, d) == c.k = "ts" /\ c.v >= to_datetime(d).v
LeDate(c, d) == c.k = "ts" /\ c.v <= to_datetime(d).v

GeMask(df, c, d) == [n \in DOMAIN df.rows |-> GeDate(df.rows[n][c], d)]
LeMask(df, c, d) == [n \in DOMAIN df.rows |-> LeDate(df.rows[n][c], d)]

FilterStart(df, start_date, timestamp_col) ==
    IF Truthy(start_date) THEN Where(df, GeMask(df, timestamp_col, start_date)) ELSE df
FilterEnd(df, end_date, timestamp_col) ==
    IF Truthy(end_date) THEN Where(df, LeMask(df, timestamp_col, end_date)) ELSE df
FilterYear(df, year) ==
    IF Truthy(year) THEN Where(df, EqMask(df, "year", year)) ELSE df
FilterMonth(df, year, month) ==
    IF Truthy(month) /\ Truthy(year) THEN Where(df, EqMask(df, "month", month)) ELSE df

\* filter_by_date_range of a table whose timestamp_col is datetime64 and that
\* has the columns year and month
filter_by_date_range(df, start_date, end_date, year, month, timestamp_col) ==
    LET df_filtered == df
    IN [df |-> df,
        ret |-> FilterMonth(
                  FilterYear(
                    FilterEnd(FilterStart(df_filtered, start_date, timestamp_col),
                              end_date, timestamp_col),
                    year),
                  year, month)]

ProductCols == <<"product_id", "product_category_name">>
CustomerCols == <<"customer_id", "customer_state", "customer_city">>
ReviewCols == <<"order_id", "review_score">>

AddProducts(raw, df, include_product_info) ==
    IF include_product_info /\ "products" \in DOMAIN raw
    THEN Merge(df, Project(raw["products"], ProductCols), "product_id", "left")
    ELSE df

AddCustomers(raw, df, include_geographic) ==
    IF include_geographic /\ "customers" \in DOMAIN raw
    THEN Merge(df, Project(raw["customers"], CustomerCols), "customer_id", "left")
    ELSE df

\* the review merge without how='left': pd.merge defaults to an inner join
AddReviewsInner(raw, df, include_reviews) ==
    IF include_reviews /\ "reviews" \in DOMAIN raw
    THEN Merge(df, Project(raw["reviews"], ReviewCols), "order_id", "inner")
    ELSE df

AddReviews(raw, df, include_reviews) ==
    IF include_reviews /\ "reviews" \in DOMAIN raw
    THEN Merge(df, Project(raw["reviews"], ReviewCols), "order_id", "left")
    ELSE df

\* the sales table create_analysis_dataset joins onto: prepare_sales_data(),
\* filtered when year or month is given
AnalysisBase(raw, year, month) ==
    LET analysis_df == prepare_sales_data(raw, Null)
    IN IF IsErr(analysis_df) THEN analysis_df
       ELSE IF Truthy(year) \/ Truthy(month)
            THEN filter_by_date_range(analysis_df, Null, Null, year, month,
                                      "order_purchase_timestamp").ret
            ELSE analysis_df

create_analysis_dataset(raw, year, month, include_geographic, include_product_info, include_reviews) ==
    LET base == AnalysisBase(raw, year, month)
    IN IF IsErr(base) THEN base
       ELSE AddReviews(raw,
                AddCustomers(raw,
                    AddProducts(raw, base, include_product_info),
                    include_geographic),
                include_reviews)

\* get_data_summary: per loaded table its shape, columns, null counts and dtypes
get_data_summary(raw) ==
    [name \in DOMAIN raw |->
        LET df == raw[name]
        IN [shape |-> <<Len(df.rows), Len(df.cols)>>,
            columns |-> df.cols,
            missing_values |-> [c \in Range(df.cols) |->
                                   Len(df.rows) - CountCells(Column(df, c))],
            dtypes |-> [c \in Range(df.cols) |->
                           IF c \in df.dt THEN "datetime64" ELSE "other"]]]

HasDuplicates(cells) ==
    \E i, j \in DOMAIN cells : i < j /\ cells[i] = cells[j]

Issue(cond, text) == IF cond THEN <<text>> ELSE <<>>

validate_data_quality(raw) ==
    [name \in DOMAIN raw |->
        LET df == raw[name]
        IN Issue(name = "orders" /\ CountCells(Column(df, "order_id")) < Len(df.rows),
                 "Missing order_id values")
           \o Issue(name = "order_items" /\ CountCells(Column(df, "price")) < Len(df.rows),
                    "Missing price values")
           \o Issue(name = "order_items"
                    /\ \E i \in DOMAIN df.rows :
                          df.rows[i]["price"].k = "num" /\ df.rows[i]["price"].v < 0,
                    "Negative price values found")
           \o Issue(name = "orders" /\ HasDuplicates(Column(df, "order_id")),
                    "Duplicate order IDs found")]

----------------------------------------------------------------------------
(* business_metrics.py *)

\* A metric function returns [args, ret]: args are the tables passed in, in
\* the order of the parameters, as they are when the function returns.

YearRows(df, year) == Where(df, EqMask(df, "year", Num(year)))

\* the guard written previous >= 0: it lets a zero denominator through
GrowthPercentGuardGe(current, previous) ==
    IF GtZero(previous) \/ IsZero(previous)
    THEN RatMulInt(NpDiv(RatSub(current, previous), previous), 100)
    ELSE Zero

\* if previous > 0: (current - previous) / previous * 100, else: 0
GrowthPercent(current, previous) ==
    IF GtZero(previous)
    THEN RatMulInt(NpDiv(RatSub(current, previous), previous), 100)
    ELSE Zero

calculate_revenue_metrics(sales_data, current_year, previous_year) ==
    LET current_revenue == Rat(SumCells(Column(YearRows(sales_data, current_year), "price")), 1)
        previous_revenue == Rat(SumCells(Column(YearRows(sales_data, previous_year), "price")), 1)
    IN [args |-> <<sales_data>>,
        ret |-> [current_year_revenue |-> current_revenue,
                 previous_year_revenue |-> previous_revenue,
                 revenue_growth_percent |-> GrowthPercent(current_revenue, previous_revenue)]]

\* the keys of a groupby, ascending
RECURSIVE SortCells(_)
SortCells(S) ==
    IF S = {} THEN <<>>
    ELSE LET m == CHOOSE x \in S : \A y \in S : x.v <= y.v
         IN <<m>> \o SortCells(S \ {m})

\* df.groupby(key)[col]: the groups in key order, each [key, cells]
GroupBy(df, key, col) ==
    LET keys == SortCells(Distinct(Column(df, key)))
    IN [i \in DOMAIN keys |->
           [key |-> keys[i],
            cells |-> Column(Where(df, EqMask(df, key, keys[i])), col)]]

RECURSIVE SumSeq(_)
SumSeq(ns) == IF ns = <<>> THEN 0 ELSE Head(ns) + SumSeq(Tail(ns))

\* Series.mean() of numbers: NaN for an empty series
MeanOf(ns) == IF ns = <<>> THEN NaN ELSE Rat(SumSeq(ns), Len(ns))

\* the mean of the item prices, without the sum per order
AverageItemPrice(df) ==
    LET prices == SelectSeq(Column(df, "price"), LAMBDA c : c.k = "num")
    IN MeanOf([i \in DOMAIN prices |-> prices[i].v])

\* .groupby('order_id')['price'].sum().mean()
AverageOrderValue(df) ==
    LET groups == GroupBy(df, "order_id", "price")
    IN MeanOf([i \in DOMAIN groups |-> SumCells(groups[i].cells)])

calculate_average_order_value(sales_data, current_year, previous_year) ==
    LET current_aov == AverageOrderValue(YearRows(sales_data, current_year))
        previous_aov == AverageOrderValue(YearRows(sales_data, previous_year))
    IN [args |-> <<sales_data>>,
        ret |-> [current_year_aov |-> current_aov,
                 previous_year_aov |-> previous_aov,
                 aov_growth_percent |-> GrowthPercent(current_aov, previous_aov)]]

calculate_order_volume_metrics(sales_data, current_year, previous_year) ==
    LET current_orders ==
            Cardinality(Distinct(Column(YearRows(sales_data, current_year), "order_id")))
        previous_orders ==
            Cardinality(Distinct(Column(YearRows(sales_data, previous_year), "order_id")))
        order_growth ==
            IF previous_orders > 0
            THEN RatMulInt(PyDiv(current_orders - previous_orders, previous_orders), 100)
            ELSE Zero
    IN [args |-> <<sales_data>>,
        ret |-> IF order_growth.t = "ZeroDivisionError" THEN Raise("ZeroDivisionError")
                ELSE [current_year_orders |-> current_orders,
                      previous_year_orders |-> previous_orders,
                      order_growth_percent |-> order_growth]]

\* x - 1 in float64
SubOne(x) == IF IsRat(x) THEN RatSub(x, Rat(1, 1)) ELSE x

\* monthly_revenue.pct_change(): the Series [series], per month of the year in
\* month order
calculate_monthly_growth(sales_data, year) ==
    LET groups == GroupBy(YearRows(sales_data, year), "month", "price")
        revenue == [i \in DOMAIN groups |-> Rat(SumCells(groups[i].cells), 1)]
    IN [args |-> <<sales_data>>,
        ret |-> [series |-> [i \in DOMAIN groups |->
                    [month |-> groups[i].key,
                     value |-> IF i = 1 THEN NaN
                               ELSE SubOne(NpDiv(revenue[i], revenue[i - 1]))]]]]

\* .groupby(key)['price'].agg(['sum', 'count', 'mean']).round(2), columns renamed
Performance(df, key) ==
    LET groups == GroupBy(df, key, "price")
    IN [i \in DOMAIN groups |->
           LET total == SumCells(groups[i].cells)
               n == CountCells(groups[i].cells)
           IN [key |-> groups[i].key,
               total_revenue |-> RoundTo(Rat(total, 1), 100),
               total_orders |-> n,
               avg_order_value |-> RoundTo(IF n = 0 THEN NaN ELSE Rat(total, n), 100)]]

RatGe(x, y) == x.num * y.den >= y.num * x.den

\* sort_values('total_revenue', ascending=False), as frames [rows]: the default
\* sort is not stable, so rows of equal revenue may come out in any order
SortedByRevenue(stats) ==
    {[rows |-> [i \in DOMAIN stats |-> stats[p[i]]]] :
        p \in {q \in [DOMAIN stats -> DOMAIN stats] :
                  /\ \A i, j \in DOMAIN stats : i # j => q[i] # q[j]
                  /\ \A i, j \in DOMAIN stats :
                        i < j => RatGe(stats[q[i]].total_revenue, stats[q[j]].total_revenue)}}

\* the possible results of calculate_product_category_performance
calculate_product_category_performance(sales_data, products_data) ==
    LET sales_with_categories ==
            Merge(Project(sales_data, <<"product_id", "price">>),
                  Project(products_data, <<"product_id", "product_category_name">>),
                  "product_id", "inner")
    IN [args |-> <<sales_data, products_data>>,
        rets |-> SortedByRevenue(Performance(sales_with_categories, "product_category_name"))]

\* the possible results of calculate_geographic_performance
calculate_geographic_performance(sales_data, orders_data, customers_data) ==
    LET sales_with_customers ==
            Merge(Project(sales_data, <<"order_id", "price">>),
                  Project(orders_data, <<"order_id", "customer_id">>), "order_id", "inner")
        sales_with_states ==
            Merge(sales_with_customers,
                  Project(customers_data, <<"customer_id", "customer_state">>),
                  "customer_id", "inner")
    IN [args |-> <<sales_data, orders_data, customers_data>>,
        rets |-> SortedByRevenue(Performance(sales_with_states, "customer_state"))]

\* the second bound written days < 7
categorize_delivery_speed_lt(days) ==
    IF days.k = "num" /\ days.v <= 3 THEN "1-3 days"
    ELSE IF days.k = "num" /\ days.v < 7 THEN "4-7 days"
    ELSE "8+ days"

\* days <= 3, days <= 7: both False for NaN
categorize_delivery_speed(days) ==
    IF days.k = "num" /\ days.v <= 3 THEN "1-3 days"
    ELSE IF days.k = "num" /\ days.v <= 7 THEN "4-7 days"
    ELSE "8+ days"

\* pd.to_datetime(column) raises on text that is no date
Parses(df, col) ==
    \A i \in DOMAIN df.rows :
        LET c == df.rows[i][col] IN c.k # "str" \/ c.s = "ts"

RECURSIVE DropDuplicates(_)
\* drop_duplicates(): the first of equal rows is kept
DropDuplicates(rows) ==
    IF rows = <<>> THEN <<>>
    ELSE LET init == DropDuplicates(SubSeq(rows, 1, Len(rows) - 1))
             last == rows[Len(rows)]
         IN IF last \in Range(init) THEN init ELSE Append(init, last)

NumValues(cells) ==
    LET ns == SelectSeq(cells, LAMBDA c : c.k = "num")
    IN [i \in DOMAIN ns |-> ns[i].v]

WithDeliverySpeed(sales_data) ==
    SetCol(sales_data, "delivery_speed_days",
           DeliveryDaysSeries(ConvertCols(sales_data, <<"order_delivered_customer_date", "order_purchase_timestamp">>)), FALSE)

CustomerExperience(with_speed, reviews_data) ==
    LET sales_with_reviews ==
            Merge(with_speed, Project(reviews_data, <<"order_id", "review_score">>),
                  "order_id", "inner")
        unique_orders ==
            DropDuplicates(Project(sales_with_reviews,
                <<"order_id", "delivery_speed_days", "review_score">>).rows)
        category == [i \in DOMAIN unique_orders |->
                        categorize_delivery_speed(unique_orders[i]["delivery_speed_days"])]
        scores(cat) ==
            LET picked == SelectSeq([i \in DOMAIN unique_orders |->
                                        [c |-> category[i], x |-> unique_orders[i]["review_score"]]],
                                    LAMBDA e : e.c = cat)
            IN NumValues([i \in DOMAIN picked |-> picked[i].x])
    IN [avg_delivery_days |->
            MeanOf(NumValues([i \in DOMAIN unique_orders |->
                                 unique_orders[i]["delivery_speed_days"]])),
        avg_review_score |->
            MeanOf(NumValues([i \in DOMAIN unique_orders |-> unique_orders[i]["review_score"]])),
        delivery_satisfaction_by_speed |->
            [cat \in Range(category) |-> RoundTo(MeanOf(scores(cat)), 1000)]]

\* the function computing on a copy of sales_data
calculate_customer_experience_metrics_pure(sales_data, reviews_data) ==
    IF ~Parses(sales_data, "order_delivered_customer_date")
       \/ ~Parses(sales_data, "order_purchase_timestamp")
    THEN [args |-> <<sales_data, reviews_data>>, ret |-> Raise("ValueError")]
    ELSE [args |-> <<sales_data, reviews_data>>,
          ret |-> CustomerExperience(WithDeliverySpeed(sales_data), reviews_data)]

\* the column delivery_speed_days is assigned to sales_data itself
calculate_customer_experience_metrics(sales_data, reviews_data) ==
    IF ~Parses(sales_data, "order_delivered_customer_date")
       \/ ~Parses(sales_data, "order_purchase_timestamp")
    THEN [args |-> <<sales_data, reviews_data>>, ret |-> Raise("ValueError")]
    ELSE [args |-> <<WithDeliverySpeed(sales_data), reviews_data>>,
          ret |-> CustomerExperience(WithDeliverySpeed(sales_data), reviews_data)]

WithYear(orders_data) ==
    SetCol(orders_data, "year",
           DtSeries(ConvertCols(orders_data, <<"order_purchase_timestamp">>), "order_purchase_timestamp", "year"), FALSE)

\* the shares taken over all the rows, the rows without a status included
StatusSharesOfAllRows(year_orders) ==
    LET status == Column(year_orders, "order_status")
        total == Len(status)
    IN [share |-> [st \in Distinct(status) |->
           RoundTo(Rat(Len(SelectSeq(status, LAMBDA c : c = st)), total), 10000)]]

\* value_counts(normalize=True).round(4): the Series [share], status -> share
\* of the non-null statuses (the order of the index is not modelled)
StatusShares(year_orders) ==
    LET status == Column(year_orders, "order_status")
        total == CountCells(status)
    IN [share |-> [st \in Distinct(status) |->
           RoundTo(Rat(Len(SelectSeq(status, LAMBDA c : c = st)), total), 10000)]]

\* the column year is assigned to orders_data itself
calculate_order_status_distribution(orders_data, year) ==
    IF ~Parses(orders_data, "order_purchase_timestamp")
    THEN [args |-> <<orders_data>>, ret |-> Raise("ValueError")]
    ELSE [args |-> <<WithYear(orders_data)>>,
          ret |-> StatusShares(YearRows(WithYear(orders_data), year))]

----------------------------------------------------------------------------
(* The CSV files the model reads.  read_csv yields no datetime64 column. *)

RawOrderCols == <<"order_id", "customer_id", "order_status", "order_purchase_timestamp",
                  "order_approved_at", "order_delivered_customer_date",
                  "order_estimated_delivery_date">>
RawItemCols == <<"order_id", "order_item_id", "product_id", "seller_id", "price",
                 "freight_value">>
RawProductCols == <<"product_id", "product_category_name", "product_weight_g">>
RawCustomerCols == <<"customer_id", "customer_unique_id", "customer_state", "customer_city">>
RawReviewCols == <<"review_id", "order_id", "review_score">>

Delivered == Str("delivered", 0)
Shipped == Str("shipped", 0)
Canceled == Str("canceled", 0)

\* order o of customer o
OrderRow(o, status, purchase, delivered) ==
    [order_id |-> Str("o", o), customer_id |-> Str("c", o), order_status |-> status,
     order_purchase_timestamp |-> purchase, order_approved_at |-> purchase,
     order_delivered_customer_date |-> delivered,
     order_estimated_delivery_date |-> delivered]

\* an item of order o, of product p
ItemRow(o, p, price) ==
    [order_id |-> Str("o", o), order_item_id |-> Num(1), product_id |-> Str("p", p),
     seller_id |-> Str("s", 1), price |-> Num(price), freight_value |-> Num(0)]

ProductRow(p) ==
    [product_id |-> Str("p", p), product_category_name |-> Str("cat", p),
     product_weight_g |-> Num(100)]

CustomerRow(c) ==
    [customer_id |-> Str("c", c), customer_unique_id |-> Str("u", c),
     customer_state |-> Str("state", c), customer_city |-> Str("city", c)]

ReviewRow(n, o, score) ==
    [review_id |-> Str("r", n), order_id |-> Str("o", o), review_score |-> Num(score)]

Y0 == EpochYear
Y1 == EpochYear + 1

\* sequences over S of length at most n
RECURSIVE SeqsUpTo(_, _)
SeqsUpTo(S, n) ==
    IF n = 0 THEN {<<>>}
    ELSE LET shorter == SeqsUpTo(S, n - 1)
         IN shorter \cup {Append(q, x) : q \in {r \in shorter : Len(r) = n - 1}, x \in S}

\* orders_dataset.csv: order 1 and order 2
PurchaseTexts == {DateStr(Date(Y0, 1, 1, 0)), DateStr(Date(Y1, 1, 1, 0)),
                  DateStr(Date(Y1, 2, 1, 1)), Str("not a date", 0)}
DeliveredTexts == {Null, DateStr(Date(Y1, 1, 1, 1)), DateStr(Date(Y1, 1, 4, 0))}

OrdersTable(s1, p1, d1, s2, p2, d2) ==
    Frame(RawOrderCols, {}, <<OrderRow(1, s1, p1, d1), OrderRow(2, s2, p2, d2)>>)

\* products of product 1 only, customers of customer 1 only, two reviews of
\* order 1 and none of order 2
ProductsTable == Frame(RawProductCols, {}, <<ProductRow(1)>>)
CustomersTable == Frame(RawCustomerCols, {}, <<CustomerRow(1)>>)
ReviewsTable == Frame(RawReviewCols, {}, <<ReviewRow(1, 1, 5), ReviewRow(2, 1, 3)>>)

Extras(present) ==
    [n \in present |-> CASE n = "products" -> ProductsTable
                         [] n = "customers" -> CustomersTable
                         [] n = "reviews" -> ReviewsTable]

Files(orders, items, present) ==
    [n \in {"orders", "order_items"} \cup present |->
        IF n = "orders" THEN orders
        ELSE IF n = "order_items" THEN items
        ELSE Extras(present)[n]]

\* the orders vary in their dates and status, one item each
TimeWorlds ==
    {Files(OrdersTable(Delivered, p1, d1, s2, p2, DateStr(Date(Y1, 2, 2, 0))),
           Frame(RawItemCols, {}, <<ItemRow(1, 1, 1), ItemRow(2, 2, 1)>>),
           {"products", "customers", "reviews"}) :
        p1 \in PurchaseTexts, d1 \in DeliveredTexts, s2 \in {Delivered, Shipped},
        p2 \in {DateStr(Date(Y0, 2, 1, 0)), DateStr(Date(Y1, 2, 1, 1))}}

JoinOrders ==
    OrdersTable(Delivered, DateStr(Date(Y1, 1, 1, 0)), DateStr(Date(Y1, 1, 4, 0)),
                Delivered, DateStr(Date(Y0, 2, 1, 0)), Null)

\* the items vary, both orders delivered
JoinWorlds ==
    {Files(JoinOrders, Frame(RawItemCols, {}, items), {"products", "customers", "reviews"}) :
        items \in SeqsUpTo({ItemRow(o, p, 1) : o \in 1..2, p \in 1..2}, MaxRows)}

\* the files that are there vary
PresenceWorlds ==
    {Files(JoinOrders, Frame(RawItemCols, {}, <<ItemRow(1, 1, 1), ItemRow(2, 2, 1)>>), present) :
        present \in SUBSET {"products", "customers", "reviews"}}

----------------------------------------------------------------------------
(* The loader: state and operations *)

NoCall == [name |-> "none"]
NoTables == <<>>

\* EcommerceDataLoader(data_path): nothing is loaded
InitLoader ==
    /\ files \in TimeWorlds \cup JoinWorlds \cup PresenceWorlds
    /\ raw_data = <<>>
    /\ processed_data = <<>>
    /\ env = <<>>
    /\ call = NoCall
    /\ argIn = NoTables
    /\ argOut = NoTables
    /\ ret = Null

\* raw_data after the loop of load_raw_data: a file that is found replaces the
\* entry of its name, a file that is not found leaves raw_data as it was
Loaded(raw, fs) ==
    [n \in DOMAIN raw \cup DOMAIN fs |-> IF n \in DOMAIN fs THEN fs[n] ELSE raw[n]]

\* The caller is sequential: it makes a call when it holds no pending result
Idle == call = NoCall

\* the caller drops the result of the last call; the loader keeps its state
Return ==
    /\ ~Idle
    /\ call' = NoCall
    /\ argIn' = NoTables
    /\ argOut' = NoTables
    /\ ret' = Null
    /\ UNCHANGED <<files, raw_data, processed_data, env>>

load_raw_data ==
    /\ Idle
    /\ raw_data' = Loaded(raw_data, files)
    /\ ret' = raw_data'
    /\ call' = [name |-> "load_raw_data"]
    /\ argIn' = NoTables
    /\ argOut' = NoTables
    /\ UNCHANGED <<files, processed_data, env>>

DatetimeColsArgs == {DatetimeCols, <<"order_purchase_timestamp">>}

\* clean_datetime_columns(self.raw_data[n], cols)
CleanDatetimeColumns ==
    /\ Idle
    /\ \E n \in DOMAIN raw_data, cols \in DatetimeColsArgs :
        LET r == clean_datetime_columns(raw_data[n], cols)
        IN /\ raw_data' = [raw_data EXCEPT ![n] = r.df]
           /\ ret' = r.ret
           /\ call' = [name |-> "clean_datetime_columns", table |-> n, cols |-> cols]
           /\ argIn' = <<raw_data[n]>>
           /\ argOut' = <<r.df>>
           /\ UNCHANGED <<files, processed_data, env>>

\* extract_time_features(self.raw_data[n], 'order_purchase_timestamp')
ExtractTimeFeaturesRaw ==
    /\ Idle
    /\ \E n \in DOMAIN raw_data :
        LET r == extract_time_features(raw_data[n], "order_purchase_timestamp")
        IN /\ raw_data' = [raw_data EXCEPT ![n] = r.df]
           /\ ret' = r.ret
           /\ call' = [name |-> "extract_time_features", table |-> n]
           /\ argIn' = <<raw_data[n]>>
           /\ argOut' = <<r.df>>
           /\ UNCHANGED <<files, processed_data, env>>

\* extract_time_features(orders, 'order_purchase_timestamp') with the caller's
\* orders = clean_datetime_columns(self.raw_data['orders'], cols)
ExtractTimeFeaturesCleaned ==
    /\ Idle
    /\ "orders" \in DOMAIN raw_data
    /\ \E cols \in DatetimeColsArgs :
        LET orders == clean_datetime_columns(raw_data["orders"], cols).ret
            r == extract_time_features(orders, "order_purchase_timestamp")
        IN /\ ret' = r.ret
           /\ call' = [name |-> "extract_time_features", table |-> "cleaned orders"]
           /\ argIn' = <<orders>>
           /\ argOut' = <<r.df>>
           /\ UNCHANGED <<files, raw_data, processed_data, env>>

StatusFilters == {Null, List(<<Shipped>>), List(<<Delivered, Shipped>>)}

PrepareSalesData ==
    /\ Idle
    /\ \E f \in StatusFilters :
        /\ ret' = prepare_sales_data(raw_data, f)
        /\ call' = [name |-> "prepare_sales_data", order_status_filter |-> f]
        /\ argIn' = NoTables
        /\ argOut' = NoTables
        /\ UNCHANGED <<files, raw_data, processed_data, env>>

StartDates == {Null, DateStr(Date(Y1, 1, 1, 0))}
EndDates == {Null, DateStr(Date(Y1, 2, 1, 0))}
YearArgs == {Null, Num(0), Num(Y0), Num(Y1)}
MonthArgs == {Null, Num(0), Num(2)}

\* filter_by_date_range(sales, ...) with the caller's sales = prepare_sales_data()
FilterByDateRange ==
    LET sales == prepare_sales_data(raw_data, Null)
    IN /\ Idle
       /\ ~IsErr(sales)
       /\ \E start \in StartDates, end \in EndDates, year \in YearArgs, month \in MonthArgs :
            LET r == filter_by_date_range(sales, start, end, year, month,
                                          "order_purchase_timestamp")
            IN /\ ret' = r.ret
               /\ call' = [name |-> "filter_by_date_range", start_date |-> start,
                           end_date |-> end, year |-> year, month |-> month]
               /\ argIn' = <<sales>>
               /\ argOut' = <<r.df>>
               /\ UNCHANGED <<files, raw_data, processed_data, env>>

GetDataSummary ==
    /\ Idle
    /\ ret' = get_data_summary(raw_data)
    /\ call' = [name |-> "get_data_summary"]
    /\ argIn' = NoTables
    /\ argOut' = NoTables
    /\ UNCHANGED <<files, raw_data, processed_data, env>>

ValidateDataQuality ==
    /\ Idle
    /\ ret' = validate_data_quality(raw_data)
    /\ call' = [name |-> "validate_data_quality"]
    /\ argIn' = NoTables
    /\ argOut' = NoTables
    /\ UNCHANGED <<files, raw_data, processed_data, env>>

CreateAnalysisDataset ==
    /\ Idle
    /\ \E year \in YearArgs, month \in {Null, Num(2)}, geo, prod, rev \in BOOLEAN :
        /\ ret' = create_analysis_dataset(raw_data, year, month, geo, prod, rev)
        /\ call' = [name |-> "create_analysis_dataset", year |-> year, month |-> month,
                    include_geographic |-> geo, include_product_info |-> prod,
                    include_reviews |-> rev]
        /\ argIn' = NoTables
        /\ argOut' = NoTables
        /\ UNCHANGED <<files, raw_data, processed_data, env>>

NextLoader ==
    \/ load_raw_data
    \/ CleanDatetimeColumns
    \/ ExtractTimeFeaturesRaw
    \/ ExtractTimeFeaturesCleaned
    \/ PrepareSalesData
    \/ FilterByDateRange
    \/ GetDataSummary
    \/ ValidateDataQuality
    \/ CreateAnalysisDataset
    \/ Return

SpecLoader == InitLoader /\ [][NextLoader]_vars

----------------------------------------------------------------------------
(* Loading while the files of data_path come and go *)

Disk == Files(JoinOrders, Frame(RawItemCols, {}, <<ItemRow(1, 1, 1)>>),
              {"products", "customers", "reviews"})

Restrict(f, S) == [n \in DOMAIN f \cap S |-> f[n]]

InitLoad ==
    /\ files \in {Restrict(Disk, S) : S \in SUBSET Names}
    /\ raw_data = <<>>
    /\ processed_data = <<>>
    /\ env = <<>>
    /\ call = NoCall
    /\ argIn = NoTables
    /\ argOut = NoTables
    /\ ret = Null

\* a file is deleted from data_path or put back, between two calls
FsChange ==
    /\ Idle
    /\ \E n \in Names :
          files' = Restrict(Disk, IF n \in DOMAIN files THEN DOMAIN files \ {n}
                                  ELSE DOMAIN files \cup {n})
    /\ UNCHANGED <<raw_data, processed_data, env, call, argIn, argOut, ret>>

NextLoad ==
    \/ load_raw_data
    \/ FsChange
    \/ PrepareSalesData
    \/ CreateAnalysisDataset
    \/ Return

SpecLoad == InitLoad /\ [][NextLoad]_vars

----------------------------------------------------------------------------
(* The metric functions, called on the tables of a loaded session *)

Prices == -1..1

\* order 1 and order 2 are delivered, each bought in Y0 or in Y1; the items
\* vary in their order and price
MetricWorlds ==
    {Files(OrdersTable(Delivered, DateStr(Date(y1, 1, 1, 0)), DateStr(Date(y1, 1, 4, 0)),
                       Delivered, DateStr(Date(y2, 2, 1, 0)), DateStr(Date(y2, 2, 1, 1))),
           Frame(RawItemCols, {}, items), {"products", "customers", "reviews"}) :
        y1 \in {Y0, Y1}, y2 \in {Y0, Y1},
        items \in SeqsUpTo({ItemRow(o, o, p) : o \in 1..2, p \in Prices}, MaxRows)}

\* an order of orders_dataset.csv by its status and the year of its purchase;
\* the status field may be empty
StatusKinds ==
    {<<Delivered, Y1>>, <<Shipped, Y1>>, <<Canceled, Y1>>, <<Null, Y1>>, <<Delivered, Y0>>}

\* up to MaxOrders orders that vary in status and year, one item of order 1
StatusWorlds ==
    {Files(Frame(RawOrderCols, {},
                 [o \in DOMAIN kinds |->
                     OrderRow(o, kinds[o][1], DateStr(Date(kinds[o][2], 1, 1, 0)),
                              DateStr(Date(Y1, 1, 4, 0)))]),
           Frame(RawItemCols, {}, <<ItemRow(1, 1, 1)>>),
           {"products", "customers", "reviews"}) :
        kinds \in SeqsUpTo(StatusKinds, MaxOrders)}

\* the session after raw = loader.load_raw_data(); sales = loader.prepare_sales_data()
InitMetrics ==
    /\ files \in MetricWorlds \cup StatusWorlds
    /\ raw_data = Loaded(<<>>, files)
    /\ processed_data = <<>>
    /\ env = [sales |-> prepare_sales_data(raw_data, Null)]
    /\ call = NoCall
    /\ argIn = NoTables
    /\ argOut = NoTables
    /\ ret = Null

Years == {Y0, Y1}

\* a call f(sales, ...) or f(raw['orders'], ...): what the function did to its
\* arguments is what happened to the caller's tables
Called(c, passed, r, result) ==
    /\ call' = c
    /\ argIn' = passed
    /\ argOut' = r.args
    /\ ret' = result
    /\ UNCHANGED <<files, processed_data>>

CalculateRevenueMetrics ==
    /\ Idle
    /\ \E cy, py \in Years :
          LET r == calculate_revenue_metrics(env.sales, cy, py)
          IN /\ Called([name |-> "calculate_revenue_metrics", current_year |-> cy,
                        previous_year |-> py], <<env.sales>>, r, r.ret)
             /\ env' = [env EXCEPT !.sales = r.args[1]]
             /\ UNCHANGED raw_data

CalculateMonthlyGrowth ==
    /\ Idle
    /\ \E y \in Years :
          LET r == calculate_monthly_growth(env.sales, y)
          IN /\ Called([name |-> "calculate_monthly_growth", year |-> y],
                       <<env.sales>>, r, r.ret)
             /\ env' = [env EXCEPT !.sales = r.args[1]]
             /\ UNCHANGED raw_data

CalculateAverageOrderValue ==
    /\ Idle
    /\ \E cy, py \in Years :
          LET r == calculate_average_order_value(env.sales, cy, py)
          IN /\ Called([name |-> "calculate_average_order_value", current_year |-> cy,
                        previous_year |-> py], <<env.sales>>, r, r.ret)
             /\ env' = [env EXCEPT !.sales = r.args[1]]
             /\ UNCHANGED raw_data

CalculateOrderVolumeMetrics ==
    /\ Idle
    /\ \E cy, py \in Years :
          LET r == calculate_order_volume_metrics(env.sales, cy, py)
          IN /\ Called([name |-> "calculate_order_volume_metrics", current_year |-> cy,
                        previous_year |-> py], <<env.sales>>, r, r.ret)
             /\ env' = [env EXCEPT !.sales = r.args[1]]
             /\ UNCHANGED raw_data

CalculateProductCategoryPerformance ==
    /\ Idle
    /\ LET r == calculate_product_category_performance(env.sales, raw_data["products"])
       IN \E result \in r.rets :
             /\ Called([name |-> "calculate_product_category_performance"],
                       <<env.sales, raw_data["products"]>>, r, result)
             /\ env' = [env EXCEPT !.sales = r.args[1]]
             /\ raw_data' = [raw_data EXCEPT !["products"] = r.args[2]]

CalculateGeographicPerformance ==
    /\ Idle
    /\ LET r == calculate_geographic_performance(env.sales, raw_data["orders"],
                                                 raw_data["customers"])
       IN \E result \in r.rets :
             /\ Called([name |-> "calculate_geographic_performance"],
                       <<env.sales, raw_data["orders"], raw_data["customers"]>>, r, result)
             /\ env' = [env EXCEPT !.sales = r.args[1]]
             /\ raw_data' = [raw_data EXCEPT !["orders"] = r.args[2],
                                             !["customers"] = r.args[3]]

CalculateCustomerExperienceMetrics ==
    /\ Idle
    /\ LET r == calculate_customer_experience_metrics(env.sales, raw_data["reviews"])
       IN /\ Called([name |-> "calculate_customer_experience_metrics"],
                    <<env.sales, raw_data["reviews"]>>, r, r.ret)
          /\ env' = [env EXCEPT !.sales = r.args[1]]
          /\ raw_data' = [raw_data EXCEPT !["reviews"] = r.args[2]]

CalculateOrderStatusDistribution ==
    /\ Idle
    /\ \E y \in Years :
          LET r == calculate_order_status_distribution(raw_data["orders"], y)
          IN /\ Called([name |-> "calculate_order_status_distribution", year |-> y],
                       <<raw_data["orders"]>>, r, r.ret)
             /\ raw_data' = [raw_data EXCEPT !["orders"] = r.args[1]]
             /\ UNCHANGED env

\* the days of a delivery: whole numbers, negative when the delivery is dated
\* before the purchase, NaN when there is no delivery date
DaysArgs == {Num(d) : d \in -1..MaxDays} \cup {Null}

\* categorize_delivery_speed(days): no table is passed
CategorizeDeliverySpeed ==
    /\ Idle
    /\ \E days \in DaysArgs :
          Called([name |-> "categorize_delivery_speed", days |-> days], NoTables,
                 [args |-> NoTables], [category |-> categorize_delivery_speed(days)])
    /\ UNCHANGED <<raw_data, env>>

NextMetrics ==
    \/ CalculateRevenueMetrics
    \/ CalculateMonthlyGrowth
    \/ CalculateAverageOrderValue
    \/ CalculateOrderVolumeMetrics
    \/ CalculateProductCategoryPerformance
    \/ CalculateGeographicPerformance
    \/ CalculateCustomerExperienceMetrics
    \/ CalculateOrderStatusDistribution
    \/ CategorizeDeliverySpeed
    \/ Return

SpecMetrics == InitMetrics /\ [][NextMetrics]_vars

----------------------------------------------------------------------------
(* Year-over-year growth (SpecMetrics) *)

RECURSIVE PriceSum(_, _)
\* the sum of price over the rows of the year y
PriceSum(rows, y) ==
    IF rows = <<>> THEN 0
    ELSE (IF Head(rows)["year"] = Num(y) /\ Head(rows)["price"].k = "num"
          THEN Head(rows)["price"].v ELSE 0) + PriceSum(Tail(rows), y)

\* the distinct orders of the year y
OrdersOf(rows, y) ==
    {rows[i]["order_id"] : i \in {j \in DOMAIN rows : rows[j]["year"] = Num(y)}}

YoYCalls == {"calculate_revenue_metrics", "calculate_average_order_value",
             "calculate_order_volume_metrics"}

\* C1: when the previous-year denominator is zero (the previous year's revenue,
\* its average order value, its number of distinct orders), the call returns
\* and the growth percent it returns is exactly 0.
C1_ZeroDenominatorGrowthZero ==
    /\ call.name \in YoYCalls => ~IsErr(ret)
    /\ (call.name = "calculate_revenue_metrics"
        /\ PriceSum(argIn[1].rows, call.previous_year) = 0)
           => ret.revenue_growth_percent = Zero
    /\ (call.name = "calculate_average_order_value"
        /\ OrdersOf(argIn[1].rows, call.previous_year) # {}
        /\ PriceSum(argIn[1].rows, call.previous_year) = 0)
           => IsZero(ret.previous_year_aov) /\ ret.aov_growth_percent = Zero
    /\ (call.name = "calculate_order_volume_metrics"
        /\ OrdersOf(argIn[1].rows, call.previous_year) = {})
           => ret.order_growth_percent = Zero

\* a previous year that has rows and a revenue of zero
C1_Witness ==
    /\ call.name = "calculate_revenue_metrics"
    /\ OrdersOf(argIn[1].rows, call.previous_year) # {}
    /\ PriceSum(argIn[1].rows, call.previous_year) = 0
    /\ PriceSum(argIn[1].rows, call.current_year) # 0
    /\ ret.revenue_growth_percent = Zero

\* C2: calculate_revenue_metrics returns the sums of price over the rows of
\* the current and of the previous year, and a growth percent that is
\* (current - previous) / previous * 100 whenever previous is not 0.
C2_RevenueGrowthFormula ==
    call.name = "calculate_revenue_metrics" =>
        LET current == PriceSum(argIn[1].rows, call.current_year)
            previous == PriceSum(argIn[1].rows, call.previous_year)
        IN /\ ret.current_year_revenue = Rat(current, 1)
           /\ ret.previous_year_revenue = Rat(previous, 1)
           /\ previous # 0 =>
                 RatEq(ret.revenue_growth_percent, Rat((current - previous) * 100, previous))
           /\ previous = 0 => ret.revenue_growth_percent = Zero

----------------------------------------------------------------------------
(* What the metric functions do to their arguments (SpecMetrics) *)

MetricCalls == {"calculate_revenue_metrics", "calculate_monthly_growth",
                "calculate_average_order_value", "calculate_order_volume_metrics",
                "calculate_product_category_performance",
                "calculate_geographic_performance",
                "calculate_customer_experience_metrics",
                "calculate_order_status_distribution"}

\* `after` is `before` with the column c assigned and nothing else changed
OnlyColumnSet(before, after, c) ==
    /\ after.cols = IF HasCol(before, c) THEN before.cols ELSE Append(before.cols, c)
    /\ Len(after.rows) = Len(before.rows)
    /\ \A i \in DOMAIN before.rows :
          \A x \in Range(before.cols) \ {c} : after.rows[i][x] = before.rows[i][x]

\* C6 as stated: every metric function but calculate_customer_experience_metrics
\* leaves each table passed to it unchanged, calculate_order_status_distribution
\* in particular.
C6_OnlyCustomerExperienceMutates ==
    (call.name \in MetricCalls /\ call.name # "calculate_customer_experience_metrics")
        => argOut = argIn

\* C6 amended: every metric function but calculate_customer_experience_metrics
\* and calculate_order_status_distribution leaves each table passed to it
\* unchanged; calculate_customer_experience_metrics assigns the column
\* delivery_speed_days on its sales table in place and leaves its reviews
\* alone; calculate_order_status_distribution assigns the column year (the
\* year of the purchase) on its orders table in place.
C6_TwoFunctionsMutate ==
    /\ (call.name \in MetricCalls
        /\ call.name \notin {"calculate_customer_experience_metrics",
                             "calculate_order_status_distribution"})
           => argOut = argIn
    /\ (call.name = "calculate_customer_experience_metrics" /\ ~IsErr(ret))
           => /\ OnlyColumnSet(argIn[1], argOut[1], "delivery_speed_days")
              /\ HasCol(argOut[1], "delivery_speed_days")
              /\ argOut[2] = argIn[2]
              /\ env.sales = argOut[1]
    /\ (call.name = "calculate_order_status_distribution" /\ ~IsErr(ret))
           => /\ OnlyColumnSet(argIn[1], argOut[1], "year")
              /\ \A i \in DOMAIN argOut[1].rows :
                    argOut[1].rows[i]["year"] =
                        Num(YearOf(argIn[1].rows[i]["order_purchase_timestamp"].v))
              /\ raw_data["orders"] = argOut[1]

\* calculate_order_status_distribution has put a column year on an orders table
\* that had none
C6_Witness ==
    /\ call.name = "calculate_order_status_distribution"
    /\ ~HasCol(argIn[1], "year")
    /\ HasCol(argOut[1], "year")
    /\ argOut[1].rows # <<>>

----------------------------------------------------------------------------
(* Loading (SpecLoad) *)

SalesCalls == {"prepare_sales_data", "create_analysis_dataset"}

\* C3: when order_items or orders is not in raw_data, prepare_sales_data and
\* create_analysis_dataset fail with the error of a table that was never
\* loaded (the KeyError of the first missing table), and raw_data is after
\* the failed call what it was before.
C3_MissingTableFails ==
    [][(call'.name \in SalesCalls /\ ~({"order_items", "orders"} \subseteq DOMAIN raw_data))
          => /\ ret' = KeyErr(IF "order_items" \notin DOMAIN raw_data
                              THEN "order_items" ELSE "orders")
             /\ raw_data' = raw_data
             /\ processed_data' = processed_data]_vars

\* create_analysis_dataset has failed on a loader whose load found orders but
\* no order_items file
C3_Witness ==
    /\ call.name = "create_analysis_dataset"
    /\ "orders" \in DOMAIN raw_data
    /\ "order_items" \notin DOMAIN raw_data
    /\ ret = KeyErr("order_items")

\* C4: load_raw_data never fails on a missing file, and the mapping it returns
\* and stores holds a table for a name exactly when the file of that name was
\* there during the call.
C4_LoadMirrorsFiles ==
    call.name = "load_raw_data" =>
        /\ ~IsErr(ret)
        /\ ret = raw_data
        /\ DOMAIN raw_data = DOMAIN files

----------------------------------------------------------------------------
(* The loader's operations (SpecLoader) *)

LoaderCalls == {"clean_datetime_columns", "extract_time_features", "prepare_sales_data",
                "filter_by_date_range", "get_data_summary", "validate_data_quality",
                "create_analysis_dataset"}

\* C5: none of clean_datetime_columns, extract_time_features, prepare_sales_data,
\* filter_by_date_range, get_data_summary, validate_data_quality and
\* create_analysis_dataset changes a raw table of the loader or a table passed
\* to it, and none stores anything in processed_data.
C5_LoaderCallsMutateNothing ==
    [][call'.name \in LoaderCalls
          => /\ raw_data' = raw_data
             /\ argOut' = argIn'
             /\ processed_data' = <<>>]_vars

\* clean_datetime_columns was handed a raw table of the loader and returned a
\* table that differs from it
C5_Witness ==
    /\ call.name = "clean_datetime_columns"
    /\ argIn = <<raw_data[call.table]>>
    /\ ret # raw_data[call.table]
    /\ ret.rows # <<>>

Supplied(x) == ~IsNull(x)

\* the rows of df that satisfy every filter that was supplied, the month filter
\* counting only when a year is supplied too
Satisfying(df, start, end, year, month) ==
    SelectSeq(df.rows, LAMBDA r :
        LET t == r["order_purchase_timestamp"]
        IN /\ Supplied(start) => (t.k = "ts" /\ t.v >= start.v)
           /\ Supplied(end) => (t.k = "ts" /\ t.v <= end.v)
           /\ Supplied(year) => r["year"] = year
           /\ (Supplied(month) /\ Supplied(year)) => r["month"] = month)

\* C7: filter_by_date_range returns exactly the rows that satisfy the supplied
\* filters, the month filter applying only with a year; create_analysis_dataset
\* with a month and no year returns what it returns with neither.
C7_FilterIsConjunction ==
    /\ call.name = "filter_by_date_range" =>
          /\ ret.cols = argIn[1].cols
          /\ ret.rows = Satisfying(argIn[1], call.start_date, call.end_date,
                                   call.year, call.month)
    /\ (call.name = "create_analysis_dataset" /\ Supplied(call.month) /\ ~Supplied(call.year))
          => ret = create_analysis_dataset(raw_data, Null, Null, call.include_geographic,
                                           call.include_product_info, call.include_reviews)

\* C8: every row of create_analysis_dataset(year=Y) has year == Y.
C8_YearFilterRoundTrip ==
    (call.name = "create_analysis_dataset" /\ Supplied(call.year) /\ ~IsErr(ret))
        => \A i \in DOMAIN ret.rows : ret.rows[i]["year"] = call.year


\* the columns a join adds when it is switched on and its table is loaded
Joined(include, name, cs) ==
    IF include /\ name \in DOMAIN raw_data THEN cs ELSE <<>>

\* in the row r, the columns cs joined from the table `name` on `key`: null when
\* no row of the table has r's key, those of a row with r's key otherwise
JoinedCells(r, name, key, cs) ==
    LET ms == {i \in DOMAIN raw_data[name].rows : raw_data[name].rows[i][key] = r[key]}
    IN IF ms = {} THEN \A c \in Range(cs) : r[c] = Null
       ELSE \E i \in ms : \A c \in Range(cs) : r[c] = raw_data[name].rows[i][c]

\* C9: create_analysis_dataset left-joins products, customers and reviews, in
\* that order, onto the sales rows that survive the date filter: the joins
\* that are switched on add their columns in that order and the others add
\* none, every surviving sales row is in the result at least once, and a row
\* without a match has null in the joined columns.
C9_LeftJoins ==
    (call.name = "create_analysis_dataset" /\ ~IsErr(ret)) =>
        LET base == AnalysisBase(raw_data, call.year, call.month)
            prod == Joined(call.include_product_info, "products", <<"product_category_name">>)
            cust == Joined(call.include_geographic, "customers",
                           <<"customer_state", "customer_city">>)
            rev == Joined(call.include_reviews, "reviews", <<"review_score">>)
        IN /\ ret.cols = base.cols \o prod \o cust \o rev
           /\ \A i \in DOMAIN base.rows : \E j \in DOMAIN ret.rows :
                 \A c \in Range(base.cols) : ret.rows[j][c] = base.rows[i][c]
           /\ \A j \in DOMAIN ret.rows :
                 /\ \E i \in DOMAIN base.rows :
                       \A c \in Range(base.cols) : ret.rows[j][c] = base.rows[i][c]
                 /\ prod # <<>> => JoinedCells(ret.rows[j], "products", "product_id", prod)
                 /\ cust # <<>> => JoinedCells(ret.rows[j], "customers", "customer_id", cust)
                 /\ rev # <<>> => JoinedCells(ret.rows[j], "reviews", "order_id", rev)

\* the result holds an order without a review, its review_score null, next to
\* an order with one
C9_Witness ==
    /\ call.name = "create_analysis_dataset"
    /\ ~IsErr(ret)
    /\ call.include_reviews
    /\ "reviews" \in DOMAIN raw_data
    /\ \E i, j \in DOMAIN ret.rows :
          /\ ret.rows[i]["review_score"] = Null
          /\ ret.rows[j]["review_score"] # Null

\* the instants of purchase and delivery of a sales row, when both are there
BothInstants(r) ==
    r["order_purchase_timestamp"].k = "ts" /\ r["order_delivered_customer_date"].k = "ts"

Elapsed(r) == r["order_delivered_customer_date"].v - r["order_purchase_timestamp"].v

\* C10 as stated: delivery_days is delivered - purchase in whole days, the
\* fraction of a day truncated toward zero, for every pair of instants.
C10_DeliveryDaysTruncated ==
    (call.name = "prepare_sales_data" /\ ~IsErr(ret)) =>
        \A i \in DOMAIN ret.rows :
            BothInstants(ret.rows[i]) =>
                ret.rows[i]["delivery_days"] = Num(TruncDiv(Elapsed(ret.rows[i]), TicksPerDay))

\* C10 amended: delivery_days is delivered - purchase in whole days, rounded
\* down (toward minus infinity): it is the truncation toward zero whenever the
\* delivery is not before the purchase, so that under a day yields 0 and three
\* days yield 3, and one less than the truncation for a delivery that is a
\* fraction of a day before the purchase.
C10_DeliveryDaysFloored ==
    (call.name = "prepare_sales_data" /\ ~IsErr(ret)) =>
        \A i \in DOMAIN ret.rows :
            LET r == ret.rows[i]
                days == r["delivery_days"].v
            IN BothInstants(r) =>
                  /\ r["delivery_days"].k = "num"
                  /\ days * TicksPerDay <= Elapsed(r)
                  /\ Elapsed(r) < (days + 1) * TicksPerDay
                  /\ Elapsed(r) >= 0 => days = TruncDiv(Elapsed(r), TicksPerDay)

\* a delivery recorded a day and a fraction before the purchase
C10_Witness ==
    /\ call.name = "prepare_sales_data"
    /\ ~IsErr(ret)
    /\ \E i \in DOMAIN ret.rows :
          /\ BothInstants(ret.rows[i])
          /\ Elapsed(ret.rows[i]) < 0
          /\ Elapsed(ret.rows[i]) % TicksPerDay # 0
          /\ ret.rows[i]["delivery_days"].v < TruncDiv(Elapsed(ret.rows[i]), TicksPerDay)

----------------------------------------------------------------------------
(* Order status distribution (SpecMetrics) *)

\* the orders of the table purchased in the year y, by position
PurchasedIn(orders, y) ==
    {i \in DOMAIN orders.rows :
        LET p == orders.rows[i]["order_purchase_timestamp"]
        IN p.k \in {"str", "ts"} /\ (p.k = "str" => p.s = "ts") /\ YearOf(p.v) = y}

\* those of them that have the status st
WithStatus(orders, y, st) ==
    {i \in PurchasedIn(orders, y) : orders.rows[i]["order_status"] = st}

\* those of them that have a status at all
WithAStatus(orders, y) ==
    {i \in PurchasedIn(orders, y) : ~IsNull(orders.rows[i]["order_status"])}

RECURSIVE ShareSum(_, _)
\* the sum of the shares of the statuses in S, in ten-thousandths
ShareSum(share, S) ==
    IF S = {} THEN 0
    ELSE LET st == CHOOSE x \in S : TRUE
         IN share[st].num + ShareSum(share, S \ {st})

\* share is count / total to within half a ten-thousandth
NearShare(x, count, total) ==
    /\ IsRat(x) /\ x.den = 10000
    /\ LET d == x.num * total - count * 10000
       IN 2 * (IF d < 0 THEN -d ELSE d) <= total

\* the shares sum to 1.0 to within half a ten-thousandth per share
SumsToOne(share) ==
    LET d == ShareSum(share, DOMAIN share) - 10000
    IN 2 * (IF d < 0 THEN -d ELSE d) <= Cardinality(DOMAIN share)

StatusCall == call.name = "calculate_order_status_distribution" /\ ~IsErr(ret)

\* C11 as stated: for every year the proportions returned by
\* calculate_order_status_distribution sum to 1.0 within the rounding, and
\* each is the count of its status among the orders purchased in the year
\* divided by the number of orders purchased in the year.
C11_SharesSumToOne ==
    StatusCall =>
        LET orders == argIn[1]
            y == call.year
        IN /\ SumsToOne(ret.share)
           /\ \A st \in DOMAIN ret.share :
                 NearShare(ret.share[st], Cardinality(WithStatus(orders, y, st)),
                           Cardinality(PurchasedIn(orders, y)))

\* C11 as the code has it: the statuses returned are the statuses of the
\* orders purchased in the year; each proportion is the count of its status
\* divided by the number of those orders that have a status, rounded to four
\* decimals; the proportions sum to 1.0 within the rounding when the year has
\* an order with a status, and the result is empty (sum 0) when it has none.
C11_SharesOfOrdersWithStatus ==
    StatusCall =>
        LET orders == argIn[1]
            y == call.year
        IN /\ DOMAIN ret.share =
                 {orders.rows[i]["order_status"] : i \in WithAStatus(orders, y)}
           /\ \A st \in DOMAIN ret.share :
                 NearShare(ret.share[st], Cardinality(WithStatus(orders, y, st)),
                           Cardinality(WithAStatus(orders, y)))
           /\ WithAStatus(orders, y) # {} => SumsToOne(ret.share)

\* three statuses of a third each, returned as 0.3333 each
C11_Witness ==
    /\ StatusCall
    /\ Cardinality(DOMAIN ret.share) = 3
    /\ ShareSum(ret.share, DOMAIN ret.share) = 9999

\* an order without a status among the orders of the year
C11_WitnessNoStatus ==
    /\ StatusCall
    /\ WithAStatus(argIn[1], call.year) # PurchasedIn(argIn[1], call.year)
    /\ WithAStatus(argIn[1], call.year) # {}

----------------------------------------------------------------------------
(* Delivery speed buckets (SpecMetrics) *)

Buckets == {"1-3 days", "4-7 days", "8+ days"}

SpeedCall == call.name = "categorize_delivery_speed"

\* C12: categorize_delivery_speed always returns one of the three buckets:
\* "1-3 days" for every days <= 3, "4-7 days" for every days with
\* 3 < days <= 7 and "8+ days" for every days > 7; 3 is in "1-3 days", 4 and
\* 7 are in "4-7 days", 8 is in "8+ days"; no table changes.
C12_ThreeBuckets ==
    SpeedCall =>
        /\ ret.category \in Buckets
        /\ call.days.k = "num" =>
              /\ ret.category = "1-3 days" <=> call.days.v <= 3
              /\ ret.category = "4-7 days" <=> (3 < call.days.v /\ call.days.v <= 7)
              /\ ret.category = "8+ days" <=> call.days.v > 7
        /\ call.days = Num(3) => ret.category = "1-3 days"
        /\ call.days = Num(4) => ret.category = "4-7 days"
        /\ call.days = Num(7) => ret.category = "4-7 days"
        /\ call.days = Num(8) => ret.category = "8+ days"
        /\ argOut = argIn

\* the upper bound of the middle bucket
C12_Witness == SpeedCall /\ call.days = Num(7) /\ ret.category = "4-7 days"

----------------------------------------------------------------------------
(* Agreement of the year-over-year functions (SpecMetrics) *)

\* the rows of the year y, by position
RowsOf(rows, y) == {i \in DOMAIN rows : rows[i]["year"] = Num(y)}

\* C13: for a year with at least one order, current_year_aov of
\* calculate_average_order_value times current_year_orders of
\* calculate_order_volume_metrics equals current_year_revenue of
\* calculate_revenue_metrics on the same sales table; the average order value
\* is the revenue of the year divided by the number of its distinct orders.
C13_AovTimesOrdersIsRevenue ==
    (call.name \in YoYCalls /\ OrdersOf(argIn[1].rows, call.current_year) # {}) =>
        LET sales == argIn[1]
            cy == call.current_year
            py == call.previous_year
            aov == IF call.name = "calculate_average_order_value" THEN ret
                   ELSE calculate_average_order_value(sales, cy, py).ret
            volume == IF call.name = "calculate_order_volume_metrics" THEN ret
                      ELSE calculate_order_volume_metrics(sales, cy, py).ret
            revenue == IF call.name = "calculate_revenue_metrics" THEN ret
                       ELSE calculate_revenue_metrics(sales, cy, py).ret
        IN /\ ~IsErr(aov) /\ ~IsErr(volume) /\ ~IsErr(revenue)
           /\ RatEq(RatMulInt(aov.current_year_aov, volume.current_year_orders),
                    revenue.current_year_revenue)
           /\ RatEq(aov.current_year_aov,
                    Rat(PriceSum(sales.rows, cy), Cardinality(OrdersOf(sales.rows, cy))))

\* one order of two items in the year: the average order value is the sum of
\* the two prices, the mean item price is half of it
C13_Witness ==
    /\ call.name = "calculate_average_order_value"
    /\ Cardinality(OrdersOf(argIn[1].rows, call.current_year)) = 1
    /\ Cardinality(RowsOf(argIn[1].rows, call.current_year)) = 2
    /\ PriceSum(argIn[1].rows, call.current_year) = 2
    /\ RatEq(ret.current_year_aov, Rat(2, 1))
====
